---- MODULE Spec2Model ----
(***************************************************************************)
(* Model of helpers/mtgtop8-scraper.py: the crawl driver scrape_decklists  *)
(* (pagination, de-duplication, per-item fetch and persist, per-page CSV   *)
(* checkpoint) and the pure parser parse_placement_for_deck.               *)
(*                                                                         *)
(* The disk (export files, mtgtop8_decks.csv) outlives a run; everything   *)
(* else is local to one call of scrape_decklists.  The web site is the     *)
(* environment: every fetch nondeterministically yields a connection       *)
(* error or an HTTP status, and a listing page any of ListingPages.        *)
(***************************************************************************)
EXTENDS Integers, Sequences, FiniteSets, TLC

VARIABLES
    pc,           \* position in scrape_decklists: idle | loop | items | done | aborted
    max_pages,    \* argument of the current run (NoPageCap stands for None)
    page,         \* local `page`
    page_links,   \* local `page_links` of the page being processed
    idx,          \* position of the for loop in page_links (1-based)
    seen_links,   \* local `seen_links`
    records,      \* local `records` (the in-memory buffer)
    files,        \* deck ids <id> whose DATASET_DIR/deck_<id>.txt exists
    csv_exists,   \* whether DATASET_DIR/mtgtop8_decks.csv exists
    csv,          \* its lines, in order
    fetched,      \* history: listing page numbers fetched in this run, in order
    listing_error,\* history: a listing-page fetch of this run raised
    short_seen,   \* history: this run fetched a page with 1..threshold-1 links
    failed,       \* history: links whose detail or export fetch failed in this run
    emitted,      \* history: records appended to `records` in this run, in order
    all_present,  \* history: every link of the current page had its file at fetch time
    soup_rows,    \* parse_placement_for_deck: the candidate rows of the document
    target,       \* parse_placement_for_deck: argument deck_id
    placement,    \* parse_placement_for_deck: returned value
    ppc           \* parse_placement_for_deck: called | returned

crawlVars == <<pc, max_pages, page, page_links, idx, seen_links, records,
               files, csv_exists, csv, fetched, listing_error, short_seen,
               failed, emitted, all_present>>
parseVars == <<soup_rows, target, placement, ppc>>
vars == <<crawlVars, parseVars>>

----------------------------------------------------------------------------
(* Bounds of the model *)

MaxPages == 2
MaxRows == 2

----------------------------------------------------------------------------
(* Values *)

\* Python None where a str is expected.  parse_qs drops blank values, so ""
\* is never a `d` identifier, and the code tests identifiers by truthiness.
None == ""

\* Python None where an int is expected (placement); int() of a text without
\* '-' is never negative.
NoPlacement == -1

\* max_pages = None
NoPageCap == -1

PaginationThreshold == 5

\* A link is modelled by its query string: a sequence of <<key, value>>.
LinkA == << <<"e", "1">>, <<"d", "10">> >>
LinkB == << <<"d", "10">>, <<"f", "cEDH">> >>
LinkC == << <<"e", "3">> >>
LinkD == << <<"d", "">> >>
Links == {LinkA, LinkB, LinkC, LinkD}

\* parse_qs(query).get("d"): the non-blank values of key d, in order
RECURSIVE QueryValues(_, _)
QueryValues(query, key) ==
    IF query = <<>> THEN <<>>
    ELSE LET rest == QueryValues(Tail(query), key)
         IN IF Head(query)[1] = key /\ Head(query)[2] # ""
            THEN <<Head(query)[2]>> \o rest
            ELSE rest

parse_deck_id(deck_url) ==
    LET deck_ids == QueryValues(deck_url, "d")
    IN IF deck_ids # <<>> THEN deck_ids[1] ELSE None

\* f"page{page}_idx{len(records)}"
SyntheticId(p, n) == "page" \o ToString(p) \o "_idx" \o ToString(n)

\* deck_id = parse_deck_id(deck_url) or f"page{page}_idx{len(records)}"
DeckId(link, p, recs) ==
    IF parse_deck_id(link) # None THEN parse_deck_id(link)
    ELSE SyntheticId(p, Len(recs))

\* if deck_path.exists(): continue
DeckPathExistsNever(deck_id) == FALSE
DeckPathExists(deck_id) == deck_id \in files

\* A response of the site to one GET.
Responses == {[err |-> TRUE, status |-> 0],
              [err |-> FALSE, status |-> 200],
              [err |-> FALSE, status |-> 404]}

\* connection error or timeout: session.get raises
SessionGetRaises(resp) == resp.err

\* response.raise_for_status()
RaiseForStatus(resp) == resp.status >= 400

\* fetch_soup raises
FetchSoupRaises(resp) == SessionGetRaises(resp) \/ RaiseForStatus(resp)

\* The fetch did not succeed: connection error, timeout or non-success status.
FetchFailed(resp) == resp.err \/ resp.status >= 400

\* The listing pages the site may serve.
\* An empty page, three short pages (two links with the same d, two links
\* without d, three links of three distinct decks) and a page of
\* PaginationThreshold links, some of them repeated.
FullPage == <<LinkA, LinkB, LinkA, LinkB, LinkA>>
ListingPages ==
    {<<>>, <<LinkA, LinkB>>, <<LinkC, LinkD>>, <<LinkA, LinkC, LinkD>>, FullPage}

\* The record appended for an item (deck_url, mtgo_url are functions of link,
\* deck_file of deck_id).
Record(deck_id, link) == [deck_id |-> deck_id, link |-> link]

HeaderLine == [kind |-> "header"]
RowLine(r) == [kind |-> "row", rec |-> r]

RECURSIVE Rows(_)
Rows(recs) ==
    IF recs = <<>> THEN <<>> ELSE <<RowLine(Head(recs))>> \o Rows(Tail(recs))

\* mode = 'a' if output_path.exists() and page > 1 else 'w'
CsvModeAlwaysWrite(exists, p) == "w"
CsvMode(exists, p) == IF exists /\ p > 1 THEN "a" ELSE "w"

\* header = not output_path.exists() or page == 1
CsvHeaderFirstPageOnly(exists, p) == p = 1
CsvHeader(exists, p) == ~exists \/ p = 1

\* partial_df.to_csv(output_path, mode=mode, header=header, index=False)
ToCsv(old, mode, header, recs) ==
    (IF mode = "a" THEN old ELSE <<>>)
        \o (IF header THEN <<HeaderLine>> ELSE <<>>)
        \o Rows(recs)

\* has_next, computed from the link count and never read
HasNext == Len(page_links) >= PaginationThreshold

\* max_pages is not None and page > max_pages
CapExceededOffByOne == max_pages # NoPageCap /\ page > max_pages + 1
CapExceeded == max_pages # NoPageCap /\ page > max_pages

----------------------------------------------------------------------------
(* scrape_decklists *)

Init ==
    /\ pc = "idle"
    /\ max_pages = NoPageCap
    /\ page = 1
    /\ page_links = <<>>
    /\ idx = 0
    /\ seen_links = {}
    /\ records = <<>>
    /\ files = {}
    /\ csv_exists = FALSE
    /\ csv = <<>>
    /\ fetched = <<>>
    /\ listing_error = FALSE
    /\ short_seen = FALSE
    /\ failed = {}
    /\ emitted = <<>>
    /\ all_present = FALSE
    /\ soup_rows = <<>>
    /\ target = None
    /\ placement = NoPlacement
    /\ ppc = "idle"

\* A call of scrape_decklists(max_pages=mp): lines 109-113.
StartRun(mp) ==
    /\ pc \in {"idle", "done", "aborted"}
    /\ pc' = "loop"
    /\ max_pages' = mp
    /\ page' = 1
    /\ page_links' = <<>>
    /\ idx' = 0
    /\ seen_links' = {}
    /\ records' = <<>>
    /\ fetched' = <<>>
    /\ listing_error' = FALSE
    /\ short_seen' = FALSE
    /\ failed' = {}
    /\ emitted' = <<>>
    /\ all_present' = FALSE
    /\ UNCHANGED <<files, csv_exists, csv, parseVars>>

\* if max_pages is not None and page > max_pages: break
CapReached ==
    /\ pc = "loop"
    /\ CapExceeded
    /\ pc' = "done"
    /\ UNCHANGED <<max_pages, page, page_links, idx, seen_links, records,
                   files, csv_exists, csv, fetched, listing_error, short_seen,
                   failed, emitted, all_present, parseVars>>

\* fetch_soup of the listing page raises; nothing catches it.  With
\* max_pages = None the page counter is capped at MaxPages.
ListingFetchRaises(resp) ==
    /\ pc = "loop"
    /\ ~CapExceeded
    /\ page <= MaxPages
    /\ FetchSoupRaises(resp)
    /\ pc' = "aborted"
    /\ fetched' = Append(fetched, page)
    /\ listing_error' = TRUE
    /\ UNCHANGED <<max_pages, page, page_links, idx, seen_links, records,
                   files, csv_exists, csv, short_seen, failed, emitted,
                   all_present, parseVars>>

\* The listing page is fetched and holds the links `links`;
\* if not page_links: break
ListingFetched(resp, links) ==
    /\ pc = "loop"
    /\ ~CapExceeded
    /\ page <= MaxPages
    /\ ~FetchSoupRaises(resp)
    /\ fetched' = Append(fetched, page)
    /\ IF links = <<>>
       THEN /\ pc' = "done"
            /\ UNCHANGED <<page_links, idx, all_present, short_seen>>
       ELSE /\ pc' = "items"
            /\ page_links' = links
            /\ idx' = 1
            /\ all_present' =
                   \A i \in 1..Len(links) : DeckId(links[i], page, <<>>) \in files
            /\ short_seen' = (short_seen \/ Len(links) < PaginationThreshold)
    /\ UNCHANGED <<max_pages, page, seen_links, records, files, csv_exists,
                   csv, listing_error, failed, emitted, parseVars>>

InLoopBody == pc = "items" /\ idx <= Len(page_links)
link == page_links[idx]

\* if link in seen_links: continue
SkipSeen ==
    /\ InLoopBody
    /\ link \in seen_links
    /\ idx' = idx + 1
    /\ UNCHANGED <<pc, max_pages, page, page_links, seen_links, records,
                   files, csv_exists, csv, fetched, listing_error, short_seen,
                   failed, emitted, all_present, parseVars>>

\* if deck_path.exists(): continue
SkipExisting ==
    /\ InLoopBody
    /\ link \notin seen_links
    /\ DeckPathExists(DeckId(link, page, records))
    /\ seen_links' = seen_links \cup {link}
    /\ idx' = idx + 1
    /\ UNCHANGED <<pc, max_pages, page, page_links, records,
                   files, csv_exists, csv, fetched, listing_error, short_seen,
                   failed, emitted, all_present, parseVars>>

\* The same step without the try/except around it: the exception ends the run.
ItemDetailUncaught(dresp) ==
    /\ InLoopBody
    /\ link \notin seen_links
    /\ ~DeckPathExists(DeckId(link, page, records))
    /\ FetchSoupRaises(dresp)
    /\ seen_links' = seen_links \cup {link}
    /\ failed' = failed \cup {link}
    /\ pc' = "aborted"
    /\ UNCHANGED <<idx, max_pages, page, page_links, records,
                   files, csv_exists, csv, fetched, listing_error, short_seen,
                   emitted, all_present, parseVars>>

\* fetch_soup(session, deck_url) raises; except Exception: continue
ItemDetailRaises(dresp) ==
    /\ InLoopBody
    /\ link \notin seen_links
    /\ ~DeckPathExists(DeckId(link, page, records))
    /\ FetchSoupRaises(dresp)
    /\ seen_links' = seen_links \cup {link}
    /\ failed' = failed \cup {link}
    /\ idx' = idx + 1
    /\ UNCHANGED <<pc, max_pages, page, page_links, records,
                   files, csv_exists, csv, fetched, listing_error, short_seen,
                   emitted, all_present, parseVars>>

\* session.get(mtgo_url, ...) raises; except Exception: continue
ItemExportRaises(dresp, eresp) ==
    /\ InLoopBody
    /\ link \notin seen_links
    /\ ~DeckPathExists(DeckId(link, page, records))
    /\ ~FetchSoupRaises(dresp)
    /\ SessionGetRaises(eresp)
    /\ seen_links' = seen_links \cup {link}
    /\ failed' = failed \cup {link}
    /\ idx' = idx + 1
    /\ UNCHANGED <<pc, max_pages, page, page_links, records,
                   files, csv_exists, csv, fetched, listing_error, short_seen,
                   emitted, all_present, parseVars>>

\* Both GETs return (the export response is not checked for its status):
\* deck_path.write_text(...); records.append(...)
ItemStore(dresp, eresp) ==
    /\ InLoopBody
    /\ link \notin seen_links
    /\ ~DeckPathExists(DeckId(link, page, records))
    /\ ~FetchSoupRaises(dresp)
    /\ ~SessionGetRaises(eresp)
    /\ LET deck_id == DeckId(link, page, records)
       IN /\ files' = files \cup {deck_id}
          /\ records' = Append(records, Record(deck_id, link))
          /\ emitted' = Append(emitted, Record(deck_id, link))
    /\ seen_links' = seen_links \cup {link}
    /\ failed' = IF FetchFailed(eresp) THEN failed \cup {link} ELSE failed
    /\ idx' = idx + 1
    /\ UNCHANGED <<pc, max_pages, page, page_links, csv_exists, csv, fetched,
                   listing_error, short_seen, all_present, parseVars>>

\* After the for loop: has_next (never read), the checkpoint, page += 1.
\* page_links and the loop position are dead until the next fetch assigns
\* them, so they are cleared here.
Checkpoint ==
    /\ pc = "items"
    /\ idx > Len(page_links)
    /\ IF records # <<>>
       THEN /\ csv' = ToCsv(csv, CsvMode(csv_exists, page),
                            CsvHeader(csv_exists, page), records)
            /\ csv_exists' = TRUE
            /\ records' = <<>>
       ELSE UNCHANGED <<csv, csv_exists, records>>
    /\ page' = page + 1
    /\ pc' = "loop"
    /\ page_links' = <<>>
    /\ idx' = 0
    /\ all_present' = FALSE
    /\ UNCHANGED <<max_pages, seen_links, files, fetched, listing_error,
                   short_seen, failed, emitted, parseVars>>

Next ==
    \/ \E mp \in (0..MaxPages) \cup {NoPageCap} : StartRun(mp)
    \/ CapReached
    \/ \E resp \in Responses : ListingFetchRaises(resp)
    \/ \E resp \in Responses, links \in ListingPages : ListingFetched(resp, links)
    \/ SkipSeen
    \/ SkipExisting
    \/ \E dresp \in Responses : ItemDetailRaises(dresp)
    \/ \E dresp \in Responses, eresp \in Responses : ItemExportRaises(dresp, eresp)
    \/ \E dresp \in Responses, eresp \in Responses : ItemStore(dresp, eresp)
    \/ Checkpoint

Spec == Init /\ [][Next]_vars

\* The interpreter runs the call to its end, and every GET returns or raises
\* within its timeout of 30 s; a new call may or may not be made.
FairSpec == Spec /\ WF_vars(Next)

----------------------------------------------------------------------------
(* Properties of scrape_decklists *)

Range(seq) == {seq[i] : i \in 1..Len(seq)}
Terminated == pc \in {"done", "aborted"}
Running == pc \in {"loop", "items"}
PageProcessed == pc = "items" /\ idx > Len(page_links)

\* C1: once a run has fetched a listing page with at least one link and fewer
\* than PaginationThreshold links, it fetches no further listing page.
C1_ShortPageIsLast ==
    [][(short_seen /\ Running) => fetched' = fetched]_vars

\* C2: while the run processes a listing page whose links all had their
\* export file on disk when the page was fetched, no step is an item-level
\* fetch (detail or export), no export file is written, no record is created
\* and the checkpoint file gets no row.
C2_AllPresentPageFetchesNothing ==
    [][(all_present /\ pc = "items") =>
          /\ ~(\E dresp \in Responses : ItemDetailRaises(dresp))
          /\ ~(\E dresp \in Responses, eresp \in Responses :
                  ItemExportRaises(dresp, eresp) \/ ItemStore(dresp, eresp))
          /\ files' = files
          /\ failed' = failed
          /\ emitted' = emitted
          /\ records' = records
          /\ csv' = csv
          /\ csv_exists' = csv_exists]_vars

\* A later run has walked through a page of links that were all downloaded.
C2_Witness ==
    /\ all_present
    /\ PageProcessed
    /\ page_links = <<LinkC, LinkD>>
    /\ seen_links = {LinkC, LinkD}

\* C3: every data row of the checkpoint file is still in the file after any
\* step of the program.
C3_AppendOnly ==
    [][csv_exists =>
          /\ csv_exists'
          /\ \A i \in 1..Len(csv) :
                 csv[i].kind = "row" => csv[i] \in Range(csv')]_vars

\* C4: no record is created (and so no export file written) in this run for
\* a link whose detail fetch or export fetch failed.
C4_FailedItemLeavesNothing ==
    \A i \in 1..Len(emitted) : emitted[i].link \notin failed

\* C5: the checkpoint file, when it exists, starts with the header line and
\* holds no other header line.
C5_HeaderExactlyOnce ==
    csv_exists =>
        /\ Len(csv) >= 1
        /\ csv[1] = HeaderLine
        /\ \A i \in 2..Len(csv) : csv[i] # HeaderLine

\* A run wrote the file on page 1 and appended to it on page 2.
C5_Witness ==
    /\ csv_exists
    /\ pc = "loop"
    /\ page = 3
    /\ Len(emitted) = 2
    /\ emitted[2].deck_id = SyntheticId(2, 0)
    /\ Len(csv) = 3

\* C6: the records created in one run have pairwise distinct deck ids, that
\* is distinct export file paths deck_<id>.txt.
C6_OneRecordPerPath ==
    \A i, j \in 1..Len(emitted) :
        emitted[i].deck_id = emitted[j].deck_id => i = j

\* A link failed, a distinct link with the same d was stored after it, and a
\* link without d was stored under the synthetic id a failed one had used.
C6_Witness ==
    /\ LinkA \in failed
    /\ LinkC \in failed
    /\ \E i \in 1..Len(emitted) :
           emitted[i] = Record("10", LinkB)
    /\ \E i \in 1..Len(emitted) :
           emitted[i].link = LinkD /\ emitted[i].deck_id = SyntheticId(page, 0)
    /\ PageProcessed

\* C7: with a page cap, the listing pages fetched in a run are 1, 2, ..., k
\* with k <= max_pages, the run ends only at the top of the loop (cap, empty
\* page, listing-fetch failure), and every run ends.
C7_PagesInOrderAndTermination ==
    /\ [](/\ \A i \in 1..Len(fetched) : fetched[i] = i
          /\ max_pages # NoPageCap => Len(fetched) <= max_pages)
    /\ [][(Terminated' /\ ~Terminated) => pc = "loop"]_vars
    /\ (Running /\ max_pages # NoPageCap) ~> Terminated

\* A capped run has fetched max_pages pages and stopped at the cap.
C7_Witness ==
    /\ pc = "done"
    /\ max_pages = 2
    /\ fetched = <<1, 2>>
    /\ page = 3

\* C9: the run is aborted exactly when a listing fetch raised; a step in
\* which an item fails leaves the loop at the next link of the same page;
\* and once the links of a page are exhausted the buffered records are
\* written and the page number advances.
C9_FailurePropagation ==
    /\ [](pc = "aborted" <=> listing_error)
    /\ [][(failed' # failed /\ failed \subseteq failed') =>
             /\ pc' = "items"
             /\ page' = page
             /\ page_links' = page_links
             /\ idx' = idx + 1]_vars
    /\ [][PageProcessed =>
             /\ pc' = "loop"
             /\ page' = page + 1
             /\ \A i \in 1..Len(records) : RowLine(records[i]) \in Range(csv')]_vars

\* The first link of page 1 failed, the second was stored, the checkpoint was
\* written and the run is at page 2.
C9_Witness ==
    /\ pc = "loop"
    /\ page = 2
    /\ LinkA \in failed
    /\ emitted = <<Record("10", LinkB)>>
    /\ csv = <<HeaderLine, RowLine(Record("10", LinkB))>>

\* C10: at the top of the loop and after the loop the buffer is empty and
\* every record created in this run is a row of the checkpoint file.
C10_BufferFlushed ==
    pc \in {"loop", "done", "aborted"} =>
        /\ records = <<>>
        /\ \A i \in 1..Len(emitted) :
               csv_exists /\ RowLine(emitted[i]) \in Range(csv)

\* A run that stored two decks on page 1 is aborted by the fetch of page 2.
C10_Witness ==
    /\ pc = "aborted"
    /\ page = 2
    /\ Len(emitted) = 2
    /\ Len(csv) = 3

----------------------------------------------------------------------------
(* parse_placement_for_deck *)

\* A text is a sequence of characters.
Digits == <<"0", "1", "2", "3", "4", "5", "6", "7", "8", "9">>
IsDigit(c) == \E i \in 1..Len(Digits) : Digits[i] = c
DigitValue(c) == (CHOOSE i \in 1..Len(Digits) : Digits[i] = c) - 1
IsSpace(c) == c = " "

\* str.strip()
RECURSIVE LStrip(_)
LStrip(t) == IF t # <<>> /\ IsSpace(Head(t)) THEN LStrip(Tail(t)) ELSE t
RECURSIVE RStrip(_)
RStrip(t) ==
    IF t # <<>> /\ IsSpace(t[Len(t)]) THEN RStrip(SubSeq(t, 1, Len(t) - 1)) ELSE t
Strip(t) == LStrip(RStrip(t))

\* "-" in raw
HasSeparator(t) == \E i \in 1..Len(t) : t[i] = "-"

\* raw.split("-", 1)[0]
SplitFirstKeepsAll(t) == t
SplitFirst(t) ==
    IF HasSeparator(t)
    THEN SubSeq(t, 1, (CHOOSE i \in 1..Len(t) :
                          t[i] = "-" /\ \A j \in 1..(i - 1) : t[j] # "-") - 1)
    ELSE t

\* int(raw): the value, or NoPlacement where int raises ValueError.  int
\* ignores surrounding whitespace; of the characters modelled here no other
\* than a digit can be part of an integer literal once '-' is split off.
RECURSIVE DecimalValue(_)
DecimalValue(t) ==
    IF t = <<>> THEN 0
    ELSE 10 * DecimalValue(SubSeq(t, 1, Len(t) - 1)) + DigitValue(t[Len(t)])
IntOrNone(t) ==
    LET body == Strip(t)
    IN IF body # <<>> /\ \A i \in 1..Len(body) : IsDigit(body[i])
       THEN DecimalValue(body)
       ELSE NoPlacement

\* A candidate row (.chosen_tr, .hover_tr): its first <a href>, if any, and
\* the text of its first element of class S14, if any.
LinkE == << <<"d", "20">> >>
Text3to4 == <<"3", "-", "4">>
PlacementTexts ==
    {<<>>, <<" ">>, <<"3">>, <<"1", "2">>, Text3to4, <<"a", "b", "c">>,
     <<" ", "3", " ">>, <<"-", "3">>, <<"3", " ", "-", "4">>, <<"3", " ", "4">>}
CandidateRows ==
    {[has_link |-> FALSE, href |-> <<>>, has_s14 |-> FALSE, text |-> <<>>]}
    \cup {[has_link |-> TRUE, href |-> h, has_s14 |-> FALSE, text |-> <<>>] :
             h \in {LinkA, LinkC, LinkE}}
    \cup {[has_link |-> TRUE, href |-> h, has_s14 |-> TRUE, text |-> t] :
             h \in {LinkA, LinkC, LinkE}, t \in PlacementTexts}
Documents == UNION {[1..n -> CandidateRows] : n \in 0..MaxRows}
TargetIds == {None, "10", "20", "page1_idx0"}

\* The body of the for loop for one row: <<TRUE, value>> when it returns,
\* <<FALSE, _>> when it continues with the next row.
RowResult(row, deck_id) ==
    IF ~row.has_link THEN <<FALSE, NoPlacement>>
    ELSE IF parse_deck_id(row.href) # deck_id THEN <<FALSE, NoPlacement>>
    ELSE IF ~row.has_s14 THEN <<FALSE, NoPlacement>>
    ELSE LET raw == Strip(row.text)
         IN IF raw = <<>> THEN <<FALSE, NoPlacement>>
            ELSE <<TRUE, IntOrNone(IF HasSeparator(raw)
                                   THEN Strip(SplitFirst(raw)) ELSE raw)>>

RECURSIVE ScanRows(_, _)
ScanRows(rows, deck_id) ==
    IF rows = <<>> THEN NoPlacement
    ELSE LET r == RowResult(Head(rows), deck_id)
         IN IF r[1] THEN r[2] ELSE ScanRows(Tail(rows), deck_id)

parse_placement_for_deck(rows, deck_id) ==
    IF deck_id = None THEN NoPlacement ELSE ScanRows(rows, deck_id)

ParseInit ==
    /\ pc = "idle"
    /\ max_pages = NoPageCap
    /\ page = 1
    /\ page_links = <<>>
    /\ idx = 0
    /\ seen_links = {}
    /\ records = <<>>
    /\ files = {}
    /\ csv_exists = FALSE
    /\ csv = <<>>
    /\ fetched = <<>>
    /\ listing_error = FALSE
    /\ short_seen = FALSE
    /\ failed = {}
    /\ emitted = <<>>
    /\ all_present = FALSE
    /\ soup_rows \in Documents
    /\ target \in TargetIds
    /\ placement = NoPlacement
    /\ ppc = "called"

ParsePlacement ==
    /\ ppc = "called"
    /\ placement' = parse_placement_for_deck(soup_rows, target)
    /\ ppc' = "returned"
    /\ UNCHANGED <<soup_rows, target, crawlVars>>

ParseNext == ParsePlacement

ParseSpec == ParseInit /\ [][ParseNext]_vars

----------------------------------------------------------------------------
(* Properties of parse_placement_for_deck *)

\* The number a placement text stands for: the integer before its first '-'.
PlacementOfText(t) ==
    LET raw == Strip(t)
        prefix == IF \E i \in 1..Len(raw) : raw[i] = "-"
                  THEN SubSeq(raw, 1, (CHOOSE i \in 1..Len(raw) :
                          raw[i] = "-" /\ \A j \in 1..(i - 1) : raw[j] # "-") - 1)
                  ELSE raw
        body == Strip(prefix)
    IN IF body # <<>> /\ \A i \in 1..Len(body) : body[i] \in Range(Digits)
       THEN DecimalValue(body)
       ELSE NoPlacement

Matches(row, deck_id) == row.has_link /\ parse_deck_id(row.href) = deck_id
Usable(row, deck_id) ==
    Matches(row, deck_id) /\ row.has_s14 /\ Strip(row.text) # <<>>
First(S) == CHOOSE i \in S : \A j \in S : i <= j

\* C8 as stated: the first row whose link derives the target decides alone
\* (none when its placement text is empty or not a number, whatever the
\* later rows hold), and the result is none when no row matches.
C8_FirstMatchingRowDecides ==
    LET matching == {i \in 1..Len(soup_rows) : Matches(soup_rows[i], target)}
    IN (/\ ppc = "returned"
        /\ target # None
        /\ matching # {} => soup_rows[First(matching)].has_s14) =>
           placement =
               IF matching = {} THEN NoPlacement
               ELSE PlacementOfText(soup_rows[First(matching)].text)

\* C8 as amended: the first row whose link derives the target and which has a
\* placement element with non-empty stripped text decides alone (matching
\* rows without the element or with empty text are passed over); the result
\* is none when there is no such row.
C8_FirstUsableRowDecides ==
    (ppc = "returned" /\ target # None) =>
        LET usable == {i \in 1..Len(soup_rows) : Usable(soup_rows[i], target)}
        IN placement =
               IF usable = {} THEN NoPlacement
               ELSE PlacementOfText(soup_rows[First(usable)].text)

\* "3-4" in the first usable row gave 3 although a later matching row reads 12.
C8_Witness ==
    /\ ppc = "returned"
    /\ target = "10"
    /\ Len(soup_rows) = 2
    /\ soup_rows[1] = [has_link |-> TRUE, href |-> LinkA, has_s14 |-> TRUE,
                       text |-> Text3to4]
    /\ soup_rows[2] = [has_link |-> TRUE, href |-> LinkA, has_s14 |-> TRUE,
                       text |-> <<"1", "2">>]
    /\ placement = 3

====
